---- MODULE Spec2Model ----
(***************************************************************************)
(* IntervalAction.hpp: a gate that runs a unit of work no more often than  *)
(* every `interval` time units.  The gate keeps two uint32_t fields,       *)
(* interval and t_prev, and reads a free-running time source.              *)
(*                                                                         *)
(* The time source is a counter of `Width` bits that wraps; the model      *)
(* scales the 32-bit counter of the source down to Width bits and keeps    *)
(* the arithmetic modulo 2^Width.                                          *)
(***************************************************************************)
EXTENDS Integers, Sequences

(* ------------------------------ bounds -------------------------------- *)

\* Bit width of the time counter and of the gate's two fields (scaled down).
Width == 3

\* Largest advance of the time source between the two reads of one poll.
MaxDrift == 1

\* Largest advance of the time source in one step between two operations.
MaxTick == 2

\* Cap of the counter of consecutive polls that did not fire.
MaxIdle == 2

\* Largest number of calls of operator() on the same gate that are active
\* at once, one inside the unit of work of the other.
MaxDepth == 2

\* Bits of the iteration counter of IA_PRINT_ITER_PER_SEC (16 in the code),
\* scaled like Width.
CntWidth == 2

(* ------------------------- unsigned arithmetic ------------------------ *)

\* Number of values of an unsigned integer of w bits.
Modulus(w) == 2^w

\* Conversion of an integer to an unsigned integer of w bits.
Wrap(x, w) == x % Modulus(w)

\* The values an unsigned field of the model can hold.
Word == 0..(Modulus(Width) - 1)

\* The intervals a gate is constructed with: every value of the field.
Intervals == Word

\* The intervals set_interval is called with: always-run, the smallest
\* positive one, and the largest the field holds.
NewIntervals == {0, 1, Modulus(Width) - 1}

(* --------------------------- the gate, pure --------------------------- *)

\* IntervalAction(iv) : interval(iv), t_prev(timer_function())
\* t is the value the time source returns to the constructor.
ConstructZero(iv, t) == [interval |-> iv, t_prev |-> 0]
Construct(iv, t) == [interval |-> iv, t_prev |-> t]

\* set_interval(iv) { interval = iv; }
SetIntervalRestarts(g, iv) == [g EXCEPT !.interval = iv, !.t_prev = 0]
SetInterval(g, iv) == [g EXCEPT !.interval = iv]

\* get_interval() and get_prev()
GetInterval(g) == g.interval
GetPrev(g) == g.t_prev

\* timer_function() - t_prev, an unsigned subtraction of w bits.
ElapsedNoWrap(now, prev, w) == now - prev
ElapsedW(now, prev, w) == Wrap(now - prev, w)

\* The condition of the if: timer_function() - t_prev >= interval.
DueStrict(now, prev, iv, w) == ElapsedW(now, prev, w) > iv
DueW(now, prev, iv, w) == ElapsedW(now, prev, w) >= iv

\* The value assigned to t_prev in a firing poll: t1 is the value the time
\* source returned to the comparison, t2 the value it returns to the second
\* call, in the assignment t_prev = timer_function().
StampFirstRead(t1, t2) == t1
Stamp(t1, t2) == t2

\* Number of times operator() calls func, given the outcome of the if.
CallsTwice(due) == IF due THEN 2 ELSE 0
Calls(due) == IF due THEN 1 ELSE 0

\* operator(): the gate after the if and the assignment, and the number of
\* calls of func.  t1 and t2 are the two values read from the time source.
PollKeepsPrev(g, t1, t2, w) ==
  [gate |-> g, fired |-> Calls(DueW(t1, g.t_prev, g.interval, w))]
PollAlwaysStamps(g, t1, t2, w) ==
  [gate |-> [g EXCEPT !.t_prev = Stamp(t1, t2)],
   fired |-> Calls(DueW(t1, g.t_prev, g.interval, w))]
PollW(g, t1, t2, w) ==
  LET due == DueW(t1, g.t_prev, g.interval, w)
  IN  [gate  |-> IF due THEN [g EXCEPT !.t_prev = Stamp(t1, t2)] ELSE g,
       fired |-> Calls(due)]

(* ------------------------- the unit of work --------------------------- *)

\* The unit of work passed to operator(): a counting stub that may, as in
\* the usage example, call set_interval on its own gate.
CountOnly == [reconf |-> FALSE, iv |-> 0]
Works == {CountOnly} \cup {[reconf |-> TRUE, iv |-> i] : i \in NewIntervals}

\* The gate after func() has run.
RunWorkOnCopy(g, wk) == g
RunWork(g, wk) == IF wk.reconf THEN SetInterval(g, wk.iv) ELSE g

(* ------------------------------- state -------------------------------- *)

VARIABLES
  clock,    \* the value the time source returns now
  gate,     \* the gate's fields: [interval, t_prev]
  op,       \* the operation that made the last step
  pre,      \* the gate's fields before the last step
  last,     \* what the last step observed, when it was a poll
  since,    \* time elapsed since the comparison of the poll that fired
            \* last read the time source (since construction before the
            \* first firing), capped at Modulus(Width)
  polled,   \* operator() has been called since construction
  hadFire,  \* func has been called since construction
  idle,     \* number of polls in a row that did not fire, capped at MaxIdle
  anchor,   \* the gate's fields before the first poll of that row
  io,       \* the value passed to or returned by the last step, when it
            \* was a call of set_interval, get_interval or get_prev
  gateM,    \* the fields of an IntervalActionMEMFN on the same time source
  gateT,    \* the fields of an IntervalActionTPL on the same time source
  frames,   \* the calls of operator() that have entered the if and not
            \* returned, outermost first
  pollers,  \* where each of two concurrent callers of operator() stands
  win,      \* the firings decided less than interval after one another
  cnt,      \* _cnt_iter_per_sec of IA_PRINT_ITER_PER_SEC
  obs       \* what the last step observed, in the programs further below

\* The variables of the programs further below, which the programs around
\* a single IntervalAction leave alone.
aux == <<gateM, gateT, frames, pollers, win, cnt, obs>>

vars == <<clock, gate, op, pre, last, since, polled, hadFire, idle, anchor, io,
          gateM, gateT, frames, pollers, win, cnt, obs>>

Min(a, b) == IF a < b THEN a ELSE b

\* The observation of a step that is not a poll.
NoPoll ==
  [t1 |-> 0, t2 |-> 0, drift |-> 0, fired |-> 0, gap |-> 0, inTime |-> TRUE,
   first |-> FALSE, again |-> FALSE, twin |-> FALSE, prevFired |-> 0,
   reconf |-> FALSE, newIv |-> 0, afterReconf |-> FALSE, setIv |-> 0]

\* No gate of that class has been constructed.
NoGate == [interval |-> 0, t_prev |-> 0]

\* Nothing observed.
NoObs == [fired |-> <<0, 0, 0>>, wrapped |-> FALSE]

\* The state after construction: the constructor has read the time source.
Init ==
  /\ clock \in Word
  /\ \E iv \in Intervals : gate = Construct(iv, clock)
  /\ op = "construct"
  /\ pre = gate
  /\ last = NoPoll
  /\ since = 0
  /\ polled = FALSE
  /\ hadFire = FALSE
  /\ idle = 0
  /\ anchor = gate
  /\ io = 0
  /\ gateM = NoGate
  /\ gateT = NoGate
  /\ frames = <<>>
  /\ pollers = <<>>
  /\ win = 0
  /\ cnt = 0
  /\ obs = NoObs

\* The time source advances by d while the program does something else.
Advance(d) ==
  /\ clock' = Wrap(clock + d, Width)
  /\ since' = Min(since + d, Modulus(Width))
  /\ op' = "tick"
  /\ pre' = gate
  /\ last' = NoPoll
  /\ io' = 0
  /\ UNCHANGED <<gate, polled, hadFire, idle, anchor>>
  /\ UNCHANGED aux

Tick == \E d \in 1..MaxTick : Advance(d)

\* The program runs for lag time units and then calls operator()(func): the
\* comparison reads the time source, and in a firing poll the assignment
\* reads it again, d later, and func (the work wk) runs.
PollAfter(lag, d, wk) ==
  LET t1 == Wrap(clock + lag, Width)
      t2 == Wrap(clock + lag + d, Width)
      s1 == Min(since + lag, Modulus(Width))
      r  == PollW(gate, t1, t2, Width)
      fd == r.fired > 0
      \* The step before was a poll too, no time has passed since, and both
      \* of its reads of the time source returned what this comparison reads.
      tw == op = "poll" /\ lag = 0 /\ last.t1 = t1 /\ last.t2 = t1
  IN  /\ fd \/ (d = 0 /\ wk = CountOnly)
      /\ gate' = IF fd THEN RunWork(r.gate, wk) ELSE r.gate
      /\ clock' = IF fd THEN t2 ELSE t1
      /\ op' = "poll"
      /\ pre' = gate
      /\ last' = [t1 |-> t1,
                  t2 |-> IF fd THEN t2 ELSE t1,
                  drift |-> IF fd THEN d ELSE 0,
                  fired |-> r.fired,
                  gap |-> s1,
                  inTime |-> (lag <= Modulus(Width) - gate.interval),
                  first |-> ~polled,
                  again |-> hadFire,
                  twin |-> tw,
                  prevFired |-> IF tw THEN last.fired ELSE 0,
                  reconf |-> (fd /\ wk.reconf),
                  newIv |-> IF fd /\ wk.reconf THEN wk.iv ELSE 0,
                  afterReconf |-> (op = "poll" /\ last.reconf),
                  setIv |-> IF op = "poll" /\ last.reconf
                            THEN last.newIv ELSE 0]
      /\ io' = 0
      /\ UNCHANGED aux
      /\ since' = IF fd THEN d ELSE s1
      /\ polled' = TRUE
      /\ hadFire' = (hadFire \/ fd)
      /\ idle' = IF fd THEN 0 ELSE Min(idle + 1, MaxIdle)
      /\ anchor' = IF fd THEN gate' ELSE IF idle = 0 THEN gate ELSE anchor

\* operator() called now, with any unit of work.
Poll == \E d \in 0..MaxDrift, wk \in Works : PollAfter(0, d, wk)

\* The time one pass of loop() takes before it polls the gate: a few time
\* units, or about a whole period of the counter.
LoopTimes == (1..MaxTick) \cup {Modulus(Width) - 1, Modulus(Width)}

\* One pass of loop() around a gate with a counting stub as unit of work:
\* the rest of the loop body takes lag time units and then the gate is
\* polled.
LoopPass ==
  \E lag \in LoopTimes, d \in 0..MaxDrift : PollAfter(lag, d, CountOnly)

\* set_interval(iv) called from outside the unit of work.
DoSetInterval ==
  \E iv \in NewIntervals :
    /\ gate' = SetInterval(gate, iv)
    /\ op' = "set_interval"
    /\ pre' = gate
    /\ last' = NoPoll
    /\ idle' = 0
    /\ anchor' = gate'
    /\ io' = iv
    /\ UNCHANGED <<clock, since, polled, hadFire>>
    /\ UNCHANGED aux

\* get_interval() called from outside the unit of work.
DoGetInterval ==
  /\ io' = GetInterval(gate)
  /\ op' = "get_interval"
  /\ pre' = gate
  /\ last' = NoPoll
  /\ UNCHANGED <<clock, gate, since, polled, hadFire, idle, anchor>>
  /\ UNCHANGED aux

\* get_prev() called from outside the unit of work.
DoGetPrev ==
  /\ io' = GetPrev(gate)
  /\ op' = "get_prev"
  /\ pre' = gate
  /\ last' = NoPoll
  /\ UNCHANGED <<clock, gate, since, polled, hadFire, idle, anchor>>
  /\ UNCHANGED aux

Next == Tick \/ Poll \/ DoSetInterval

Spec == Init /\ [][Next]_vars

\* operator() called now, with a counting stub as unit of work.
PollStub == \E d \in 0..MaxDrift : PollAfter(0, d, CountOnly)

\* A program that calls every method of the gate, in any order.
AccessNext == Tick \/ PollStub \/ DoSetInterval \/ DoGetInterval \/ DoGetPrev

AccessSpec == Init /\ [][AccessNext]_vars

\* A program that does nothing but run loop() forever, and never calls
\* set_interval: every pass is eventually followed by another.
LoopSpec == Init /\ [][LoopPass]_vars /\ WF_vars(LoopPass)

(* ------------------- the three classes side by side ------------------- *)

\* IntervalActionMEMFN(cclass, iv) : interval(iv),
\* t_prev((cclass.*timer_function)()), clock_(cclass)
ConstructMEMFN(iv, t) == [interval |-> iv, t_prev |-> t]

\* IntervalActionMEMFN::set_interval
SetIntervalMEMFN(g, iv) == [g EXCEPT !.interval = iv]

\* IntervalActionMEMFN::operator(): t1 and t2 are the values the two calls
\* (clock_.*timer_function)() return.
PollMEMFN(g, t1, t2, w) ==
  IF Wrap(t1 - g.t_prev, w) >= g.interval
    THEN [gate |-> [g EXCEPT !.t_prev = t2], fired |-> 1]
    ELSE [gate |-> g, fired |-> 0]

\* IntervalActionTPL(tf, iv) : timer_function(tf), interval(iv),
\* t_prev(timer_function())
ConstructTPL(iv, t) == [interval |-> iv, t_prev |-> t]

\* IntervalActionTPL::set_interval
SetIntervalTPL(g, iv) == [g EXCEPT !.interval = iv]

\* IntervalActionTPL::operator(): t1 and t2 are the values the two calls
\* timer_function() return.
PollTPLStrict(g, t1, t2, w) ==
  IF Wrap(t1 - g.t_prev, w) > g.interval
    THEN [gate |-> [g EXCEPT !.t_prev = t2], fired |-> 1]
    ELSE [gate |-> g, fired |-> 0]
PollTPL(g, t1, t2, w) ==
  IF Wrap(t1 - g.t_prev, w) >= g.interval
    THEN [gate |-> [g EXCEPT !.t_prev = t2], fired |-> 1]
    ELSE [gate |-> g, fired |-> 0]

\* The variables the program with the three classes leaves alone.
single == <<pre, last, since, polled, hadFire, idle, anchor, io, frames,
           pollers, win, cnt>>

\* The observations of the programs around a single IntervalAction, in a
\* program that does not make them.
SingleUnused ==
  /\ pre = NoGate
  /\ last = NoPoll
  /\ since = 0
  /\ polled = FALSE
  /\ hadFire = FALSE
  /\ idle = 0
  /\ anchor = NoGate
  /\ io = 0

\* One gate of each class, constructed at the same time with the same
\* interval; the three time sources (a free function, a method of a clock
\* object, a callable) return the same counter.
VariantInit ==
  /\ clock \in Word
  /\ \E iv \in Intervals :
       /\ gate = Construct(iv, clock)
       /\ gateM = ConstructMEMFN(iv, clock)
       /\ gateT = ConstructTPL(iv, clock)
  /\ op = "construct"
  /\ obs = NoObs
  /\ frames = <<>>
  /\ pollers = <<>>
  /\ win = 0
  /\ cnt = 0
  /\ SingleUnused

\* The counter advances.
VariantTick ==
  \E d \in 1..MaxTick :
    /\ clock' = Wrap(clock + d, Width)
    /\ op' = "tick"
    /\ obs' = NoObs
    /\ UNCHANGED <<gate, gateM, gateT>>
    /\ UNCHANGED single

\* The three gates are polled with the same unit of work and get the same
\* two readings of the counter.
VariantPoll ==
  \E d \in 0..MaxDrift, wk \in Works :
    LET t1 == clock
        t2 == Wrap(clock + d, Width)
        a  == PollW(gate, t1, t2, Width)
        m  == PollMEMFN(gateM, t1, t2, Width)
        t  == PollTPL(gateT, t1, t2, Width)
        any == a.fired + m.fired + t.fired > 0
    IN  /\ any \/ (d = 0 /\ wk = CountOnly)
        /\ gate' = IF a.fired > 0 THEN RunWork(a.gate, wk) ELSE a.gate
        /\ gateM' = IF m.fired > 0
                      THEN IF wk.reconf THEN SetIntervalMEMFN(m.gate, wk.iv)
                                        ELSE m.gate
                      ELSE m.gate
        /\ gateT' = IF t.fired > 0
                      THEN IF wk.reconf THEN SetIntervalTPL(t.gate, wk.iv)
                                        ELSE t.gate
                      ELSE t.gate
        /\ clock' = IF any THEN t2 ELSE t1
        /\ op' = "poll"
        /\ obs' = [fired |-> <<a.fired, m.fired, t.fired>>,
                   wrapped |-> (any /\ t1 < GetPrev(gate))]
        /\ UNCHANGED single

\* set_interval is called on the three gates with the same value.
VariantSetInterval ==
  \E iv \in NewIntervals :
    /\ gate' = SetInterval(gate, iv)
    /\ gateM' = SetIntervalMEMFN(gateM, iv)
    /\ gateT' = SetIntervalTPL(gateT, iv)
    /\ op' = "set_interval"
    /\ obs' = NoObs
    /\ UNCHANGED clock
    /\ UNCHANGED single

VariantNext == VariantTick \/ VariantPoll \/ VariantSetInterval

VariantSpec == VariantInit /\ [][VariantNext]_vars

(* --------------------- operator(), statement by statement ------------- *)

\* The statements inside the if of operator(), in the order they run:
\* t_prev = timer_function(); func();
FireOrderCallFirst == <<"call", "stamp">>
FireOrder == <<"stamp", "call">>

\* The assignment t_prev = timer_function().
StampStepLost(g, t1, t2) == g
StampStep(g, t1, t2) == [g EXCEPT !.t_prev = Stamp(t1, t2)]

\* What operator() does to the gate when func() does not complete: there is
\* no try or catch around the call, so nothing.
OnAbortRetry(g) == [g EXCEPT !.t_prev = Wrap(g.t_prev - g.interval, Width)]
OnAbort(g) == g

\* The innermost active call of operator().
Top == frames[Len(frames)]

\* A unit of work is running (in the innermost call).
InWork == frames # <<>> /\ Top.pc = "work"

\* Number of units of work that have started and not ended.
Depth == IF frames = <<>> THEN 0
         ELSE IF Top.pc = "work" THEN Len(frames) ELSE Len(frames) - 1

\* The frames fs after the innermost call has completed a statement of the
\* if: it goes on to the next one, or returns after the last.
Finish(fs) ==
  LET n == Len(fs)
      top == fs[n]
  IN  IF top.i + 1 > Len(FireOrder)
        THEN SubSeq(fs, 1, n - 1)
        ELSE [fs EXCEPT ![n] = [top EXCEPT !.i = top.i + 1, !.pc = "body"]]

\* Nothing observed by a step of this program.
StepNoObs ==
  [t |-> 0, fired |-> 0, gap |-> 0, depth |-> 0,
   afterAbort |-> FALSE, failStamp |-> 0]

\* The variables this program leaves alone.
stepIdle == <<last, polled, hadFire, idle, anchor, gateM, gateT, pollers, win,
             cnt>>

StepInit ==
  /\ clock \in Word
  /\ \E iv \in Intervals : gate = Construct(iv, clock)
  /\ op = "construct"
  /\ pre = gate
  /\ since = 0
  /\ io = 0
  /\ frames = <<>>
  /\ pollers = <<>>
  /\ win = 0
  /\ cnt = 0
  /\ obs = StepNoObs
  /\ last = NoPoll
  /\ polled = FALSE
  /\ hadFire = FALSE
  /\ idle = 0
  /\ anchor = NoGate
  /\ gateM = NoGate
  /\ gateT = NoGate

\* Time passes between two polls, or while a unit of work runs.
StepTick ==
  \E d \in 1..MaxTick :
    /\ frames # <<>> => Top.pc = "work"
    /\ clock' = Wrap(clock + d, Width)
    /\ since' = Min(since + d, Modulus(Width))
    /\ op' = "tick"
    /\ pre' = gate
    /\ io' = 0
    /\ obs' = StepNoObs
    /\ UNCHANGED <<gate, frames>>
    /\ UNCHANGED stepIdle

\* operator() is called, by loop() or by the unit of work that is running,
\* and evaluates the condition of the if.
StepEnter ==
  /\ frames # <<>> => (Top.pc = "work" /\ Len(frames) < MaxDepth)
  /\ LET due == DueW(clock, gate.t_prev, gate.interval, Width)
     IN  /\ frames' = IF due
                        THEN Append(frames, [pc |-> "body", i |-> 1,
                                             t1 |-> clock, stamped |-> FALSE,
                                             newest |-> 0])
                        ELSE frames
         /\ since' = IF due THEN 0 ELSE since
         /\ obs' = [t |-> clock,
                    fired |-> Calls(due),
                    gap |-> since,
                    depth |-> Depth,
                    afterAbort |-> (op = "abort"),
                    failStamp |-> IF op = "abort" THEN obs.failStamp ELSE 0]
  /\ op' = IF frames = <<>> THEN "poll" ELSE "repoll"
  /\ pre' = gate
  /\ io' = 0
  /\ UNCHANGED <<clock, gate>>
  /\ UNCHANGED stepIdle

\* t_prev = timer_function(): the time source is read again, d after the
\* comparison read it.  Every active call notes the value as the newest one
\* assigned to t_prev since its own comparison.
StepStamp ==
  /\ frames # <<>> /\ Top.pc = "body" /\ FireOrder[Top.i] = "stamp"
  /\ \E d \in 0..MaxDrift :
       LET t2 == Wrap(clock + d, Width)
           n  == Len(frames)
           fs == [k \in 1..n |->
                    IF k = n
                      THEN [frames[k] EXCEPT !.stamped = TRUE, !.t1 = 0,
                                             !.newest = Stamp(Top.t1, t2)]
                      ELSE [frames[k] EXCEPT !.newest = Stamp(Top.t1, t2)]]
       IN  /\ clock' = t2
           /\ since' = Min(since + d, Modulus(Width))
           /\ gate' = StampStep(gate, Top.t1, t2)
           /\ frames' = Finish(fs)
  /\ op' = "stamp"
  /\ pre' = gate
  /\ io' = 0
  /\ obs' = StepNoObs
  /\ UNCHANGED stepIdle

\* func(): the unit of work starts.
StepCall ==
  /\ frames # <<>> /\ Top.pc = "body" /\ FireOrder[Top.i] = "call"
  /\ frames' = [frames EXCEPT ![Len(frames)] = [Top EXCEPT !.pc = "work"]]
  /\ op' = "call"
  /\ pre' = gate
  /\ io' = 0
  /\ obs' = StepNoObs
  /\ UNCHANGED <<clock, gate, since>>
  /\ UNCHANGED stepIdle

\* The unit of work calls get_prev() on its gate.
WorkGetPrev ==
  /\ InWork
  /\ io' = GetPrev(gate)
  /\ op' = "get_prev"
  /\ pre' = gate
  /\ obs' = StepNoObs
  /\ UNCHANGED <<clock, gate, since, frames>>
  /\ UNCHANGED stepIdle

\* The unit of work calls set_interval on its gate.
WorkSetInterval ==
  /\ InWork
  /\ \E iv \in NewIntervals :
       /\ gate' = SetInterval(gate, iv)
       /\ io' = iv
  /\ op' = "set_interval"
  /\ pre' = gate
  /\ obs' = StepNoObs
  /\ UNCHANGED <<clock, since, frames>>
  /\ UNCHANGED stepIdle

\* The unit of work completes, and operator() goes on after func().
WorkReturn ==
  /\ InWork
  /\ frames' = Finish(frames)
  /\ op' = "return"
  /\ pre' = gate
  /\ io' = 0
  /\ obs' = StepNoObs
  /\ UNCHANGED <<clock, gate, since>>
  /\ UNCHANGED stepIdle

\* The unit of work fails partway: the failure leaves every active call of
\* operator() and reaches the caller of the outermost one.
WorkAbort ==
  /\ InWork
  /\ gate' = OnAbort(gate)
  /\ frames' = <<>>
  /\ op' = "abort"
  /\ pre' = gate
  /\ io' = 0
  /\ obs' = [StepNoObs EXCEPT !.failStamp = Top.newest]
  /\ UNCHANGED <<clock, since>>
  /\ UNCHANGED stepIdle

StepNext ==
  \/ StepTick \/ StepEnter \/ StepStamp \/ StepCall
  \/ WorkGetPrev \/ WorkSetInterval \/ WorkReturn \/ WorkAbort

StepSpec == StepInit /\ [][StepNext]_vars

(* --------------------- two callers of operator() on one gate ----------- *)

\* The two execution contexts that call operator() on the same object, with
\* nothing in the class to keep them apart.
Pollers == {1, 2}

\* A caller that is not inside operator().
IdlePoller == [pc |-> "idle", t |-> 0, inWin |-> FALSE]

\* A store to the 32 bit t_prev that is not one instruction, seen halfway:
\* the low half is already the new value's, the high half still the old's.
Torn(old, new) ==
  (old \div Modulus(Width \div 2)) * Modulus(Width \div 2)
    + (new % Modulus(Width \div 2))

\* Caller p is between its comparison and the end of its store to t_prev.
Updating(p) == pollers[p].pc \in {"stamp", "store"}

\* The variables this program leaves alone.
raceIdle == <<pre, last, polled, hadFire, idle, anchor, io, gateM, gateT,
              frames, cnt>>

RaceInit ==
  /\ clock \in Word
  /\ \E iv \in Intervals : gate = Construct(iv, clock)
  /\ op = "construct"
  /\ since = 0
  /\ pollers = [p \in Pollers |-> IdlePoller]
  /\ win = [n |-> 0, called |-> 0, raced |-> FALSE]
  /\ obs = [fired |-> 0, dup |-> FALSE]
  /\ pre = NoGate
  /\ last = NoPoll
  /\ polled = FALSE
  /\ hadFire = FALSE
  /\ idle = 0
  /\ anchor = NoGate
  /\ io = 0
  /\ gateM = NoGate
  /\ gateT = NoGate
  /\ frames = <<>>
  /\ cnt = 0

\* Time passes while no caller is between its two reads of the time source
\* (that time is the drift of RaceStamp).
RaceTick ==
  \E d \in 1..MaxTick :
    /\ \A p \in Pollers : ~Updating(p)
    /\ clock' = Wrap(clock + d, Width)
    /\ since' = Min(since + d, Modulus(Width))
    /\ op' = "tick"
    /\ obs' = [fired |-> 0, dup |-> FALSE]
    /\ UNCHANGED <<gate, pollers, win>>
    /\ UNCHANGED raceIdle

\* Caller p enters operator() and evaluates the condition of the if: it
\* reads the time source, t_prev and interval.
RaceCheck(p) ==
  /\ pollers[p].pc = "idle"
  /\ LET due == DueW(clock, gate.t_prev, gate.interval, Width)
         dup == win.n > 0 /\ since < gate.interval
         ov  == \E q \in Pollers \ {p} : Updating(q)
     IN  /\ pollers' =
               IF due
                 THEN [q \in Pollers |->
                         IF q = p
                           THEN [pc |-> "stamp", t |-> clock, inWin |-> TRUE]
                           ELSE IF dup THEN pollers[q]
                                ELSE [pollers[q] EXCEPT !.inWin = FALSE]]
                 ELSE pollers
         /\ win' = [n |-> IF ~due THEN win.n
                          ELSE IF dup THEN Min(win.n + 1, 2) ELSE 1,
                    called |-> IF due /\ ~dup THEN 0 ELSE win.called,
                    raced |-> (win.raced \/ ov)]
         /\ since' = IF due THEN 0 ELSE since
         /\ obs' = [fired |-> Calls(due), dup |-> (due /\ dup)]
  /\ op' = "check"
  /\ UNCHANGED <<clock, gate>>
  /\ UNCHANGED raceIdle

\* Caller p executes t_prev = timer_function(): it reads the time source,
\* d after its comparison did, and stores the value, in one instruction or
\* the low half first.
RaceStamp(p) ==
  /\ pollers[p].pc = "stamp"
  /\ \E d \in 0..MaxDrift, whole \in BOOLEAN :
       LET t2 == Wrap(clock + d, Width)
           g2 == StampStep(gate, pollers[p].t, t2)
       IN  /\ clock' = t2
           /\ since' = Min(since + d, Modulus(Width))
           /\ gate' = IF whole THEN g2
                      ELSE [gate EXCEPT !.t_prev = Torn(gate.t_prev, g2.t_prev)]
           /\ pollers' = [pollers EXCEPT
                            ![p].pc = IF whole THEN "call" ELSE "store",
                            ![p].t = IF whole THEN 0 ELSE g2.t_prev]
  /\ op' = "stamp"
  /\ obs' = [fired |-> 0, dup |-> FALSE]
  /\ UNCHANGED win
  /\ UNCHANGED raceIdle

\* Caller p completes a store to t_prev that it began.
RaceStore(p) ==
  /\ pollers[p].pc = "store"
  /\ gate' = [gate EXCEPT !.t_prev = pollers[p].t]
  /\ pollers' = [pollers EXCEPT ![p].pc = "call", ![p].t = 0]
  /\ op' = "store"
  /\ obs' = [fired |-> 0, dup |-> FALSE]
  /\ UNCHANGED <<clock, since, win>>
  /\ UNCHANGED raceIdle

\* Caller p executes func() and leaves operator().
RaceCall(p) ==
  /\ pollers[p].pc = "call"
  /\ pollers' = [pollers EXCEPT ![p] = IdlePoller]
  /\ win' = [win EXCEPT !.called = IF pollers[p].inWin
                                     THEN Min(win.called + 1, 2)
                                     ELSE win.called]
  /\ op' = "call"
  /\ obs' = [fired |-> 0, dup |-> FALSE]
  /\ UNCHANGED <<clock, gate, since>>
  /\ UNCHANGED raceIdle

RaceNext ==
  \/ RaceTick
  \/ \E p \in Pollers : RaceCheck(p)
  \/ \E p \in Pollers : RaceStamp(p)
  \/ \E p \in Pollers : RaceStore(p)
  \/ \E p \in Pollers : RaceCall(p)

RaceSpec == RaceInit /\ [][RaceNext]_vars

(* --------------------- IA_PRINT_ITER_PER_SEC --------------------------- *)

\* IntervalActionUstdClock: the same gate on tool::clock.micros().
ConstructUstdClock(iv, t) == [interval |-> iv, t_prev |-> t]

GetIntervalUstdClock(g) == g.interval

PollUstdClock(g, t1, t2, w) ==
  IF Wrap(t1 - g.t_prev, w) >= g.interval
    THEN [gate |-> [g EXCEPT !.t_prev = t2], fired |-> 1]
    ELSE [gate |-> g, fired |-> 0]

\* The interval of the static gate of the macro, 1'000'000 of 2^32
\* microseconds: some positive interval below the modulus.
ReportInterval == Modulus(Width) \div 2

\* ++_cnt_iter_per_sec on a uint16_t.
CountIter(c) == Wrap(c + 1, CntWidth)

\* What Serial.print is handed for get_interval() / _cnt_iter_per_sec: the
\* quotient, and with a divisor of 0, which the language leaves undefined,
\* any value.
Quotients(n, c) == IF c = 0 THEN Word ELSE {n \div c}

\* The variables this program leaves alone.
macroIdle == <<pre, last, since, polled, hadFire, idle, anchor, io, gateM,
               gateT, frames, pollers, win>>

\* The first expansion constructs the static gate and the counter.
MacroInit ==
  /\ clock \in Word
  /\ gate = ConstructUstdClock(ReportInterval, clock)
  /\ cnt = 0
  /\ op = "construct"
  /\ obs = [count |-> 0, avg |-> 0]
  /\ pre = NoGate
  /\ last = NoPoll
  /\ since = 0
  /\ polled = FALSE
  /\ hadFire = FALSE
  /\ idle = 0
  /\ anchor = NoGate
  /\ io = 0
  /\ gateM = NoGate
  /\ gateT = NoGate
  /\ frames = <<>>
  /\ pollers = <<>>
  /\ win = 0

\* One expansion of the macro, lag after the one before (a pass of loop()
\* may take less than one count of the time source): the counter is
\* incremented, the gate is polled, and a firing poll prints the counter
\* and the quotient and resets the counter.  With a divisor of 0 the
\* division may also stop the program.
MacroPass ==
  \E lag \in 0..MaxTick, d \in 0..MaxDrift :
    LET t1 == Wrap(clock + lag, Width)
        t2 == Wrap(t1 + d, Width)
        c  == CountIter(cnt)
        r  == PollUstdClock(gate, t1, t2, Width)
    IN  /\ op # "fault"
        /\ r.fired = 1 \/ d = 0
        /\ clock' = IF r.fired = 1 THEN t2 ELSE t1
        /\ gate' = r.gate
        /\ IF r.fired = 1
             THEN \E q \in Quotients(GetIntervalUstdClock(r.gate), c) :
                    /\ obs' = [count |-> c, avg |-> q]
                    /\ op' \in IF c = 0 THEN {"report", "fault"}
                               ELSE {"report"}
                    /\ cnt' = 0
             ELSE /\ obs' = [count |-> c, avg |-> 0]
                  /\ op' = "pass"
                  /\ cnt' = c
        /\ UNCHANGED macroIdle

MacroSpec == MacroInit /\ [][MacroPass]_vars

TypeOK ==
  /\ clock \in Word
  /\ gate.interval \in Word
  /\ gate.t_prev \in Word
  /\ since \in 0..Modulus(Width)
  /\ last.fired \in 0..1

(* ------------------------------ claims -------------------------------- *)

\* The last step was a call of operator().
IsPoll == op = "poll"

\* The last step was a call of operator() that called func.
Fired == IsPoll /\ last.fired = 1

\* The scenario of C1, on a counter wide enough for its times.
C1_Scenario ==
  LET g0 == Construct(500, 1000)
      p1 == PollW(g0, 1200, 1200, 16)
      p2 == PollW(p1.gate, 1600, 1600, 16)
      p3 == PollW(p2.gate, 1650, 1650, 16)
  IN  /\ p1.fired = 0 /\ GetPrev(p1.gate) = 1000
      /\ p2.fired = 1 /\ GetPrev(p2.gate) = 1600
      /\ p3.fired = 0 /\ GetPrev(p3.gate) = 1600

\* C1: as long as the sampled times have not wrapped since the last firing
\* (or construction), a poll at time t calls the unit of work iff
\* t - last_fire >= interval, with last_fire and interval as they were before
\* the poll; and a gate constructed at 1000 with interval 500 does not fire at
\* 1200, fires at 1600 and does not fire at 1650.
C1_FiresIffElapsed ==
  /\ (IsPoll /\ last.gap < Modulus(Width) /\ last.t1 >= pre.t_prev)
       => (last.fired = 1 <=> last.t1 - pre.t_prev >= pre.interval)
  /\ C1_Scenario

\* A poll that fires exactly at the threshold, without wraparound.
C1_Witness ==
  /\ Fired /\ last.gap < Modulus(Width)
  /\ pre.interval > 0
  /\ last.t1 - pre.t_prev = pre.interval

\* C2 as stated: on a firing poll last_fire is the value the comparison read.
C2_StampIsComparedSample == Fired => GetPrev(gate) = last.t1

\* C2 amended: on a firing poll last_fire is the value of a second read of the
\* time source, made after the comparison: the compared value plus whatever
\* the time source advanced between the two reads.
C2_StampIsSecondRead ==
  Fired => /\ GetPrev(gate) = (last.t1 + last.drift) % Modulus(Width)
           /\ GetPrev(gate) = clock

\* A firing poll during which the time source advanced between the reads.
C2_Witness == Fired /\ last.drift > 0 /\ GetPrev(gate) # last.t1

\* C3: when the unit of work is called and has been called before, the time
\* elapsed since the poll of the previous call sampled the time source is at
\* least the interval.
C3_AtLeastIntervalApart ==
  (Fired /\ last.again) => last.gap >= pre.interval

\* Two successive calls exactly one interval apart.
C3_Witness ==
  /\ Fired /\ last.again
  /\ pre.interval > 1
  /\ last.gap = pre.interval

\* C4: a poll below the threshold leaves interval and last_fire as they were
\* and does not call the unit of work, and after any number of such polls in
\* a row the gate is as it was before the first of them.
C4_BelowThresholdNoEffect ==
  /\ (IsPoll /\ (last.t1 - pre.t_prev) % Modulus(Width) < pre.interval)
       => (gate = pre /\ last.fired = 0)
  /\ idle > 0 => gate = anchor

\* A second poll in a row below the threshold, at a later time than the
\* first.
C4_Witness ==
  /\ IsPoll /\ last.fired = 0 /\ idle >= 2
  /\ gate = anchor
  /\ clock # GetPrev(gate)

\* The example of C5, on a counter of 8 bits.
C5_Example ==
  /\ PollW([interval |-> 10, t_prev |-> 250], 4, 4, 8).fired = 1
  /\ ElapsedW(4, 250, 8) = 10

\* C5: a poll fires iff (now - last_fire) mod 2^w >= interval; with w = 8,
\* last_fire = 250, interval = 10 and now = 4 it fires.
C5_ModularElapsed ==
  /\ IsPoll => (last.fired = 1 <=>
                  (last.t1 - pre.t_prev) % (2^Width) >= pre.interval)
  /\ C5_Example

\* A poll that fires after the counter has wrapped past last_fire.
C5_Witness ==
  /\ Fired /\ last.t1 < pre.t_prev
  /\ pre.interval > 0
  /\ last.gap < Modulus(Width)

\* C6 as stated: a gate with a fixed interval that is polled again and again
\* while the time source keeps advancing calls the unit of work again and
\* again.
C6_EventuallyFiresAgain == []<>Fired

\* The last poll came at most 2^w - interval after the step before it, in
\* which the gate last read the time source (last.inTime, set in PollAfter).
PolledInTime == IsPoll => last.inTime

\* C6 amended: a gate with a fixed interval that is polled again and again,
\* each poll at most 2^w - interval after the gate last read the time source,
\* calls the unit of work again and again, also across wraparound.
C6_PolledInTimeFiresAgain == []PolledInTime => []<>Fired

\* The unit of work is called again after the counter wrapped past last_fire,
\* by a poll that came in time.
C6_Witness ==
  /\ Fired /\ last.again /\ PolledInTime
  /\ pre.interval > 1
  /\ last.t1 < pre.t_prev

\* C7: of two consecutive polls at the same timestamp, with a positive
\* interval, at most one calls the unit of work.
C7_SameTimestampOnce ==
  (IsPoll /\ last.twin /\ pre.interval > 0)
    => last.prevFired + last.fired <= 1

\* The first of two polls at the same timestamp fired, the second did not.
C7_Witness ==
  /\ IsPoll /\ last.twin
  /\ pre.interval > 0
  /\ last.prevFired = 1 /\ last.fired = 0

\* C8: one call of operator() calls the unit of work at most once.
C8_AtMostOncePerPoll == IsPoll => last.fired <= 1

\* A poll that called the unit of work.
C8_Witness == Fired /\ last.t1 # pre.t_prev

\* C9: the constructor stores the time it reads as last_fire; the first poll
\* fires only if at least interval has elapsed since construction, and with a
\* positive interval a poll at the construction timestamp does not fire.
C9_FirstPollWaits ==
  /\ op = "construct" => GetPrev(gate) = clock
  /\ (Fired /\ last.first) => last.gap >= pre.interval
  /\ (IsPoll /\ last.first /\ last.gap = 0 /\ pre.interval > 0)
       => last.fired = 0

\* A first poll at the construction timestamp that does not fire.
C9_Witness ==
  /\ IsPoll /\ last.first /\ last.gap = 0
  /\ pre.interval > 0 /\ last.t1 > 0
  /\ last.fired = 0

\* C10: with interval 0 every poll calls the unit of work.
C10_ZeroIntervalAlwaysFires == (IsPoll /\ pre.interval = 0) => last.fired = 1

\* A poll with interval 0 at the very timestamp of last_fire.
C10_Witness == Fired /\ pre.interval = 0 /\ last.t1 = pre.t_prev

\* C11: when the unit of work calls set_interval on its own gate, the poll
\* that is running has fired on the old interval, the gate holds the new one
\* afterwards, and the next poll compares against the new one.
C11_ReconfigurationTakesEffectNextPoll ==
  /\ (Fired /\ last.reconf)
       => /\ (last.t1 - pre.t_prev) % Modulus(Width) >= pre.interval
          /\ GetInterval(gate) = last.newIv
  /\ (IsPoll /\ last.afterReconf)
       => /\ pre.interval = last.setIv
          /\ last.fired = 1 <=>
               (last.t1 - pre.t_prev) % Modulus(Width) >= last.setIv

\* A poll that fires at elapsed time 0 because the work of the poll before
\* set the interval to 0, and whose own work sets an interval larger than
\* the elapsed time it fired on.
C11_Witness ==
  /\ Fired /\ last.afterReconf /\ last.setIv = 0
  /\ last.t1 = pre.t_prev
  /\ last.reconf /\ last.newIv > 0
  /\ GetInterval(gate) = last.newIv

\* C16: set_interval stores exactly the value passed, leaves last_fire alone
\* and calls no unit of work; get_interval and get_prev return the fields and
\* change nothing; last_fire changes only in a poll that fires.
C16_AccessorsFrame ==
  /\ op = "set_interval"
       => /\ GetInterval(gate) = io
          /\ GetPrev(gate) = GetPrev(pre)
          /\ last.fired = 0
  /\ op = "get_interval" => (io = pre.interval /\ gate = pre)
  /\ op = "get_prev" => (io = pre.t_prev /\ gate = pre)
  /\ GetPrev(gate) # GetPrev(pre) => Fired

\* set_interval has replaced the interval by the largest value of the field
\* while the gate was due, and last_fire is still the old one.
C16_Witness ==
  /\ op = "set_interval"
  /\ io = Modulus(Width) - 1 /\ pre.interval = 1
  /\ GetPrev(gate) # clock

C13_StampedBeforeWork ==
  /\ InWork => (Top.stamped /\ GetPrev(gate) = Top.newest)
  /\ (op = "get_prev" /\ InWork) => io = Top.newest

\* The unit of work reads last_fire some time after it has started, and it
\* differs from the time source's value now.
C13_Witness ==
  /\ op = "get_prev" /\ InWork /\ Depth = 1
  /\ io = Top.newest
  /\ io # clock

\* C14: when the unit of work fails partway, the failure changes neither
\* field: last_fire stays the timestamp the poll stored, interval stays as it
\* was, and the next poll fires iff interval has elapsed since that timestamp.
C14_FailureKeepsStamp ==
  /\ op = "abort"
       => /\ gate = pre
          /\ GetPrev(gate) = obs.failStamp
          /\ frames = <<>>
  /\ (op = "poll" /\ obs.afterAbort)
       => (obs.fired = 1 <=>
             (obs.t - obs.failStamp) % Modulus(Width) >= pre.interval)

\* The poll right after a failed unit of work does not fire again.
C14_Witness ==
  /\ op = "poll" /\ obs.afterAbort
  /\ obs.fired = 0
  /\ pre.interval > 0
  /\ GetPrev(gate) = obs.failStamp

\* C15 as stated: a unit of work that polls its own gate is not called again
\* by that poll; never more than one unit of work is running.
C15_NestingStaysAtOne == Depth <= 1

\* C15 amended: a poll of the gate made by its own unit of work fires iff
\* interval has elapsed since last_fire; it does not fire, and the nesting
\* stays as it is, when less than interval has elapsed since the comparison
\* of the firing poll (so never with interval 0).
C15_NestedPollGatedLikeAnyOther ==
  /\ op = "repoll"
       => (obs.fired = 1 <=>
             (obs.t - pre.t_prev) % Modulus(Width) >= pre.interval)
  /\ (op = "repoll" /\ obs.gap < pre.interval)
       => (obs.fired = 0 /\ Depth = obs.depth /\ gate = pre)

\* A unit of work polls its own gate some time after it started, but before
\* interval has elapsed, and is not called again.
C15_Witness ==
  /\ op = "repoll" /\ obs.fired = 0
  /\ obs.gap > 0 /\ obs.gap < pre.interval
  /\ Depth = 1 /\ obs.depth = 1

\* C17: as long as no caller has evaluated the condition while another was
\* between its comparison and the end of its store to t_prev (every poll so
\* far ran as one step), no firing is decided less than interval after the
\* one before; with interleaved callers it is, and func() runs twice.
C17_AtomicPollsFireOnce ==
  ~win.raced => (win.n <= 1 /\ ~obs.dup)

\* Both callers passed the comparison at the same reading of the time source
\* of a gate with interval > 0, and both have run func().
C17_Witness ==
  /\ op = "call"
  /\ win.raced /\ win.n = 2 /\ win.called = 2
  /\ GetInterval(gate) > 1
  /\ since = 0

\* C18: whenever the report of IA_PRINT_ITER_PER_SEC fires, the counter it
\* divides get_interval() by is not 0, however many passes of loop() there
\* were since the report before.
C18_DivisorNeverZero ==
  op \in {"report", "fault"} => obs.count # 0

====
